---- MODULE Spec2Model ----
(***************************************************************************)
(* Model of toasty/norm.py: normalize(value, vmin, vmax, bias, contrast,   *)
(* stretch) and the helpers norm, cscale and the seven *_warp functions.   *)
(*                                                                         *)
(* A float is a pair <<n, d>>: the rational n/d in lowest terms when       *)
(* d > 0, and the IEEE specials when d = 0: <<1,0>> is +inf, <<-1,0>> is   *)
(* -inf and <<0,0>> is NaN.  Arithmetic on finite values is exact; the     *)
(* library functions log, sqrt, power, arcsinh and sinh are computed in    *)
(* fixed point with Prec steps per unit.                                   *)
(***************************************************************************)
EXTENDS Integers, Sequences, FiniteSets, TLC

VARIABLES input, heap, vmin, vmax, bias, contrast, stretch,
          inverted, hi, lo, result, black, pc, steps, out, err, prev

vars == <<input, heap, vmin, vmax, bias, contrast, stretch,
          inverted, hi, lo, result, black, pc, steps, out, err, prev>>

(* ------------------------------ bounds -------------------------------- *)
\* vmin and vmax range over -1..MaxBound
MaxBound == 2
\* arrays hold at most MaxLen elements
MaxLen == 3
\* fixed-point resolution of the modelled library functions
Prec == 1000

(* --------------------------- float arithmetic ------------------------- *)
Abs(n) == IF n < 0 THEN -n ELSE n

Sign(n) == IF n < 0 THEN -1 ELSE IF n > 0 THEN 1 ELSE 0

RECURSIVE GCD(_, _)
GCD(a, b) == IF b = 0 THEN a ELSE GCD(b, a % b)

\* n/d in lowest terms with a positive denominator; d = 0 gives a special
Rat(n, d) ==
    IF d = 0 THEN <<Sign(n), 0>>
    ELSE LET g == GCD(Abs(n), Abs(d))
             s == IF d < 0 THEN -1 ELSE 1
         IN  <<(s * n) \div g, (s * d) \div g>>

NaN == <<0, 0>>
PInf == <<1, 0>>
NInf == <<-1, 0>>
Zero == <<0, 1>>
One == <<1, 1>>

IsNaN(a) == a = NaN
IsInf(a) == a[2] = 0 /\ a[1] # 0
IsFinite(a) == a[2] > 0

\* a < b for non-NaN operands (any comparison with NaN is false)
Lt(a, b) == ~IsNaN(a) /\ ~IsNaN(b) /\ a[1] * b[2] < b[1] * a[2]
Le(a, b) == ~IsNaN(a) /\ ~IsNaN(b) /\ a[1] * b[2] <= b[1] * a[2]

FNeg(a) == <<-a[1], a[2]>>

FAdd(a, b) ==
    IF IsNaN(a) \/ IsNaN(b) THEN NaN
    ELSE IF IsInf(a) THEN (IF IsInf(b) /\ b # a THEN NaN ELSE a)
    ELSE IF IsInf(b) THEN b
    ELSE Rat(a[1] * b[2] + b[1] * a[2], a[2] * b[2])

FSub(a, b) == FAdd(a, FNeg(b))

FMul(a, b) ==
    IF IsNaN(a) \/ IsNaN(b) THEN NaN
    ELSE IF IsInf(a) \/ IsInf(b)
         THEN <<Sign(a[1]) * Sign(b[1]), 0>>
    ELSE Rat(a[1] * b[1], a[2] * b[2])

\* IEEE division; the zero divisors the program produces are +0
FDiv(a, b) ==
    IF IsNaN(a) \/ IsNaN(b) THEN NaN
    ELSE IF IsInf(a) THEN (IF IsInf(b) THEN NaN
                           ELSE IF b[1] < 0 THEN FNeg(a) ELSE a)
    ELSE IF IsInf(b) THEN Zero
    ELSE IF b[1] = 0 THEN <<Sign(a[1]), 0>>
    ELSE Rat(a[1] * b[2], a[2] * b[1])

\* np.clip(a, lo, hi) = minimum(maximum(a, lo), hi): NaN passes through
FClip(a, l, h) ==
    IF IsNaN(a) THEN NaN
    ELSE IF Lt(a, l) THEN l
    ELSE IF Lt(h, a) THEN h
    ELSE a

\* floor of a finite value
Floor(a) == a[1] \div a[2]

(* ----------------------- fixed-point library functions ---------------- *)
\* a finite value as a multiple of 1/Prec, rounded down
ToFix(a) == (a[1] \div a[2]) * Prec + ((a[1] % a[2]) * Prec) \div a[2]

RECURSIVE ISqrtIter(_, _, _)
ISqrtIter(v, l, h) ==
    IF l >= h THEN l
    ELSE LET m == (l + h + 1) \div 2
         IN  IF m * m <= v THEN ISqrtIter(v, m, h) ELSE ISqrtIter(v, l, m - 1)

\* floor of the square root of a natural number below 2^31
ISqrt(v) == ISqrtIter(v, 0, 46340)

RECURSIVE ExpSum(_, _, _)
ExpSum(term, k, y) ==
    IF term = 0 THEN 0
    ELSE term + ExpSum((term * y) \div (k * Prec), k + 1, y)

\* e^(y/Prec) in fixed point, for 0 <= y/Prec <= 7, by its power series
ExpFx(y) == ExpSum(Prec, 1, y)

RECURSIVE LnSeries(_, _, _)
LnSeries(zpow, z2, k) ==
    IF zpow = 0 THEN 0
    ELSE (zpow \div k) + LnSeries((zpow * z2) \div Prec, z2, k + 2)

\* ln(m/Prec) for 1 <= m/Prec <= 2, as 2*atanh((m-1)/(m+1))
LnCore(m) ==
    LET z == ((m - Prec) * Prec) \div (m + Prec)
        z2 == (z * z) \div Prec
    IN  2 * LnSeries(z, z2, 1)

RECURSIVE LnFx(_)
\* ln(v/Prec) in fixed point, for v/Prec >= 1
LnFx(v) == IF v > 2 * Prec THEN LnCore(2 * Prec) + LnFx(v \div 2) ELSE LnCore(v)

\* np.log on one element
Log(a) == IF IsNaN(a) THEN NaN ELSE Rat(LnFx(ToFix(a)), Prec)

\* np.sqrt on one element in [0, 1]
Sqrt(a) == IF IsNaN(a) THEN NaN ELSE Rat(ISqrt(ToFix(a) * Prec), Prec)

\* np.power(b, a) for an integer base b > 1 and a in [0, 1]
PowBase(b, a) ==
    IF IsNaN(a) THEN NaN
    ELSE Rat(ExpFx((ToFix(a) * LnFx(b * Prec)) \div Prec), Prec)

\* np.arcsinh on one element in [0, 10]: ln(u + sqrt(u^2 + 1))
ArcSinh(a) ==
    IF IsNaN(a) THEN NaN
    ELSE LET u == ToFix(a)
         IN  Rat(LnFx(u + ISqrt(u * u + Prec * Prec)), Prec)

\* np.sinh on one element in [0, 3]: (e^u - e^-u) / 2
Sinh(a) ==
    IF IsNaN(a) THEN NaN
    ELSE LET e == ExpFx(ToFix(a))
         IN  Rat(e - ((Prec * Prec) \div e), 2 * Prec)

(* ------------------------------ norm.py -------------------------------- *)
\* default exp of log_warp and pow_warp
Exp == 1000

\* norm without its clip
norm_noclip(x, lower, upper) ==
    LET range == FSub(upper, lower)
        elem(v) == FDiv(FSub(v, FMul(One, lower)), range)
    IN  [i \in 1..Len(x) |-> elem(x[i])]

\* norm(x, vmin, vmax): (x - 1.0*vmin) / (vmax - vmin), clipped to [0, 1]
norm(x, lower, upper) ==
    LET range == FSub(upper, lower)
        elem(v) == FClip(FDiv(FSub(v, FMul(One, lower)), range), Zero, One)
    IN  [i \in 1..Len(x) |-> elem(x[i])]

\* the buffer norm writes to: x - 1.0*vmin allocates a fresh array, and the
\* out=result operations that follow reuse it
norm_buffer(x) == "norm"

\* cscale without its clip
cscale_noclip(x, b, c) ==
    LET elem(v) == FAdd(FMul(FSub(v, b), c), <<1, 2>>)
    IN  [i \in 1..Len(x) |-> elem(x[i])]

\* cscale adding the bias back instead of 0.5
cscale_addbias(x, b, c) ==
    LET elem(v) == FClip(FAdd(FMul(FSub(v, b), c), b), Zero, One)
    IN  [i \in 1..Len(x) |-> elem(x[i])]

\* cscale as x * contrast + bias
cscale_offset(x, b, c) ==
    LET elem(v) == FClip(FAdd(FMul(v, c), b), Zero, One)
    IN  [i \in 1..Len(x) |-> elem(x[i])]

\* cscale(x, bias, contrast): subtract, multiply, add 0.5, clip, all in place
cscale(x, b, c) ==
    LET elem(v) == FClip(FAdd(FMul(FSub(v, b), c), <<1, 2>>), Zero, One)
    IN  [i \in 1..Len(x) |-> elem(x[i])]

\* the element-wise body of each stretch between norm and cscale
linear_warp(t) == t

log_warp(t) ==
    FDiv(Log(FAdd(FMul(<<Exp, 1>>, t), <<1001, 1000>>)), Log(<<Exp + 1, 1>>))

pow_warp(t) == FDiv(FSub(PowBase(Exp, t), One), <<Exp - 1, 1>>)

sqrt_warp(t) == Sqrt(t)

squared_warp(t) == FMul(t, t)

asinh_warp(t) == FDiv(ArcSinh(FMul(t, <<10, 1>>)), <<3, 1>>)

sinh_warp(t) == FDiv(Sinh(FMul(t, <<3, 1>>)), <<10, 1>>)

\* the lookup table with one entry left out
warpers_short ==
    [linear |-> "linear_warp", log |-> "log_warp", sqrt |-> "sqrt_warp",
     power |-> "pow_warp", squared |-> "squared_warp",
     arcsinh |-> "asinh_warp"]

\* the lookup table from stretch name to function
warpers ==
    [linear |-> "linear_warp", log |-> "log_warp", sqrt |-> "sqrt_warp",
     power |-> "pow_warp", squared |-> "squared_warp",
     arcsinh |-> "asinh_warp", sinh |-> "sinh_warp"]

ApplyWarp(w, t) ==
    CASE w = "linear_warp" -> linear_warp(t)
      [] w = "log_warp" -> log_warp(t)
      [] w = "sqrt_warp" -> sqrt_warp(t)
      [] w = "pow_warp" -> pow_warp(t)
      [] w = "squared_warp" -> squared_warp(t)
      [] w = "asinh_warp" -> asinh_warp(t)
      [] w = "sinh_warp" -> sinh_warp(t)

\* the buffer a stretch leaves its result in: pow_warp's last divide has no
\* out= and allocates; every other operation writes to the buffer it reads
warp_buffer(w, x) == IF w = "pow_warp" THEN "pow" ELSE x

\* inverted = vmax <= vmin
Inverted(lower, upper) == Le(upper, lower)

\* hi, lo = max(vmin, vmax), min(vmin, vmax)
Max(a, b) == IF Lt(a, b) THEN b ELSE a
Min(a, b) == IF Lt(b, a) THEN b ELSE a

\* the ValueError of an unknown stretch name
InvalidStretch(name) ==
    [type |-> "ValueError",
     format |-> "Invalid stretch option %s. Valid options are %s",
     args |-> <<name, DOMAIN warpers>>]

\* the inversion left out
Invert_noop(r) == r

\* np.subtract(1, result)
Invert(r) == FSub(One, r)

\* np.multiply(255, result) then np.clip(result, 0, 255)
ScaleClip(r) == FClip(FMul(<<255, 1>>, r), Zero, <<255, 1>>)

\* what a float-to-uint8 conversion of NaN or of a value outside [0, 256)
\* may yield: the conversion is undefined, any byte can come out, and the
\* model keeps the lowest, the middle and the highest
UndefinedCast == {0, 128, 255}

\* a conversion that rounds to nearest instead of truncating
AsUint8_round(v) ==
    IF IsFinite(v) /\ Lt(<<-1, 1>>, v) /\ Lt(v, <<256, 1>>)
    THEN {IF v[1] < 0 THEN 0 ELSE Floor(FAdd(v, <<1, 2>>)) % 256}
    ELSE UndefinedCast

\* astype(np.uint8) of one element: truncation where the value fits, and
\* undefined (NaN, infinities, out of range) otherwise
AsUint8(v) ==
    IF IsFinite(v) /\ Lt(<<-1, 1>>, v) /\ Lt(v, <<256, 1>>)
    THEN {IF v[1] < 0 THEN 0 ELSE Floor(v)}
    ELSE UndefinedCast

RECURSIVE AsType(_)
\* the arrays astype(np.uint8) can return for a float array
AsType(x) ==
    IF x = <<>> THEN {<<>>}
    ELSE {<<h>> \o t : h \in AsUint8(Head(x)), t \in AsType(Tail(x))}

(* ------------------------------ inputs --------------------------------- *)
\* sample values -3/2, -1, -1/2, 0, 1/2, ..., MaxBound + 1/2
Grid == [k \in 1..(2 * MaxBound + 5) |-> Rat(k - 4, 2)]

\* the caller's arrays: runs of consecutive sample values
InputArrays ==
    UNION {{SubSeq(Grid, a, a + n - 1) : a \in 1..(Len(Grid) - n + 1)} :
              n \in 0..MaxLen}

BoundVals == {<<k, 1>> : k \in (-1)..MaxBound}
BiasVals == {<<1, 2>>, Zero}
ContrastVals == {One, <<2, 1>>, <<-1, 1>>}
StretchArgs == DOMAIN warpers \cup {"bogus"}

(* ------------------------------ actions -------------------------------- *)
Init ==
    /\ input \in InputArrays
    /\ heap = [b \in {"value"} |-> input]
    /\ vmin \in BoundVals
    /\ vmax \in BoundVals
    /\ bias \in BiasVals
    /\ contrast \in ContrastVals
    /\ stretch \in StretchArgs
    /\ inverted = FALSE
    /\ hi = Zero
    /\ lo = Zero
    /\ result = "none"
    /\ black = <<>>
    /\ pc = "start"
    /\ steps = <<>>
    /\ out = <<>>
    /\ err = <<>>
    /\ prev = <<>>

\* normalize, lines 148-156: the flag, the ordered bounds, the lookup
Call ==
    /\ pc = "start"
    /\ inverted' = Inverted(vmin, vmax)
    /\ hi' = Max(vmin, vmax)
    /\ lo' = Min(vmin, vmax)
    /\ IF stretch \notin DOMAIN warpers
       THEN /\ err' = <<InvalidStretch(stretch)>>
            /\ pc' = "raised"
       ELSE /\ err' = err
            /\ pc' = "norm"
    /\ UNCHANGED <<input, heap, vmin, vmax, bias, contrast, stretch,
                   result, black, steps, out, prev>>

\* the stretch function's call of norm (and log_warp's mask before it)
NormStep ==
    /\ pc = "norm"
    /\ LET tgt == norm_buffer("value")
           r == norm(heap["value"], lo, hi)
       IN  /\ heap' = [b \in DOMAIN heap \cup {tgt} |->
                          IF b = tgt THEN r ELSE heap[b]]
           /\ result' = tgt
    /\ black' = IF warpers[stretch] = "log_warp"
                THEN [i \in 1..Len(heap["value"]) |-> Lt(heap["value"][i], lo)]
                ELSE black
    /\ pc' = "warp"
    /\ steps' = Append(steps, "norm")
    /\ UNCHANGED <<input, vmin, vmax, bias, contrast, stretch,
                   inverted, hi, lo, out, err, prev>>

\* the stretch function's own transform of the normalised buffer
WarpStep ==
    /\ pc = "warp"
    /\ LET w == warpers[stretch]
           tgt == warp_buffer(w, result)
           r == [i \in 1..Len(heap[result]) |-> ApplyWarp(w, heap[result][i])]
       IN  /\ heap' = [b \in DOMAIN heap \cup {tgt} |->
                          IF b = tgt THEN r ELSE heap[b]]
           /\ result' = tgt
    /\ pc' = "cscale"
    /\ steps' = Append(steps, "warp")
    /\ UNCHANGED <<input, vmin, vmax, bias, contrast, stretch,
                   inverted, hi, lo, black, out, err, prev>>

\* the stretch function's call of cscale, after which it returns
CScaleStep ==
    /\ pc = "cscale"
    /\ heap' = [heap EXCEPT ![result] = cscale(heap[result], bias, contrast)]
    /\ pc' = "stretched"
    /\ steps' = Append(steps, "cscale")
    /\ UNCHANGED <<input, vmin, vmax, bias, contrast, stretch,
                   inverted, hi, lo, result, black, out, err, prev>>

\* normalize, lines 159-160
InvertStep ==
    /\ pc = "stretched"
    /\ inverted
    /\ heap' = [heap EXCEPT ![result] =
                   [i \in 1..Len(heap[result]) |-> Invert(heap[result][i])]]
    /\ pc' = "inverted"
    /\ steps' = Append(steps, "invert")
    /\ UNCHANGED <<input, vmin, vmax, bias, contrast, stretch,
                   inverted, hi, lo, result, black, out, err, prev>>

\* normalize, lines 162-163
ScaleStep ==
    /\ \/ pc = "stretched" /\ ~inverted
       \/ pc = "inverted"
    /\ heap' = [heap EXCEPT ![result] =
                   [i \in 1..Len(heap[result]) |-> ScaleClip(heap[result][i])]]
    /\ pc' = "clipped"
    /\ steps' = Append(steps, "scale")
    /\ UNCHANGED <<input, vmin, vmax, bias, contrast, stretch,
                   inverted, hi, lo, result, black, out, err, prev>>

\* normalize, line 164
CastStep ==
    /\ pc = "clipped"
    /\ \E o \in AsType(heap[result]) : out' = <<o>>
    /\ pc' = "done"
    /\ steps' = Append(steps, "cast")
    /\ UNCHANGED <<input, heap, vmin, vmax, bias, contrast, stretch,
                   inverted, hi, lo, result, black, err, prev>>

\* the caller calls normalize once more on the same array object, with the
\* same arguments or with the two bounds exchanged
CallAgain ==
    /\ pc \in {"done", "raised"}
    /\ prev = <<>>
    /\ \E swap \in BOOLEAN :
          /\ vmin' = IF swap THEN vmax ELSE vmin
          /\ vmax' = IF swap THEN vmin ELSE vmax
          /\ prev' = <<[vmin |-> vmin, vmax |-> vmax, out |-> out]>>
    /\ heap' = [b \in {"value"} |-> heap["value"]]
    /\ inverted' = FALSE
    /\ hi' = Zero
    /\ lo' = Zero
    /\ result' = "none"
    /\ black' = <<>>
    /\ pc' = "start"
    /\ steps' = <<>>
    /\ out' = <<>>
    /\ err' = <<>>
    /\ UNCHANGED <<input, bias, contrast, stretch>>

Next ==
    \/ Call
    \/ NormStep
    \/ WarpStep
    \/ CScaleStep
    \/ InvertStep
    \/ ScaleStep
    \/ CastStep
    \/ CallAgain

Spec == Init /\ [][Next]_vars

(* ------------------------------ claims --------------------------------- *)
Recognised == {"linear", "log", "sqrt", "power", "squared", "arcsinh", "sinh"}

\* a finite value in [0, 1]
InUnit(a) == IsFinite(a) /\ 0 <= a[1] /\ a[1] <= a[2]

\* a finite value in [0, 255]
InByte(a) == IsFinite(a) /\ 0 <= a[1] /\ a[1] <= 255 * a[2]

\* n/d clamped to [0, 1], for d > 0, as an unreduced pair
Clamp(n, d) == IF n <= 0 THEN <<0, 1>> ELSE IF n >= d THEN <<1, 1>> ELSE <<n, d>>

\* clip((x - l) / (h - l), 0, 1) for l < h, by integer arithmetic
UnitOf(x, l, h) ==
    Clamp((x[1] * l[2] - l[1] * x[2]) * h[2], x[2] * (h[1] * l[2] - l[1] * h[2]))

\* clip((t - b) * c + 1/2, 0, 1), by integer arithmetic
AdjustOf(t, b, c) ==
    Clamp(2 * (t[1] * b[2] - b[1] * t[2]) * c[1] + t[2] * b[2] * c[2],
          2 * t[2] * b[2] * c[2])

\* C1: for a recognised stretch, finite inputs and vmin # vmax, what the
\* stretch function returns lies in [0, 1], the value converted lies in
\* [0, 255], each returned element is an integer in 0..255, and the output
\* has one element per input element.
C1_OutputIsByteArray ==
    (stretch \in Recognised /\ vmin # vmax) =>
        /\ pc = "stretched" =>
              \A i \in 1..Len(heap[result]) : InUnit(heap[result][i])
        /\ pc = "done" =>
              /\ Len(out[1]) = Len(input)
              /\ \A i \in 1..Len(out[1]) :
                    /\ out[1][i] \in 0..255
                    /\ InByte(heap[result][i])

C1_Witness ==
    /\ pc = "done"
    /\ stretch = "arcsinh"
    /\ vmin # vmax
    /\ Len(input) > 1
    /\ \E i \in 1..Len(out[1]) : out[1][i] \notin {0, 255}

\* C2: an unrecognised stretch name makes normalize raise the ValueError
\* that carries the name and the valid names, before any stretch function
\* runs and without an output; a recognised name never raises it.
C2_InvalidStretchRaises ==
    /\ (stretch \notin Recognised /\ pc # "start") =>
          /\ pc = "raised"
          /\ Len(err) = 1
          /\ err[1].type = "ValueError"
          /\ err[1].args[1] = stretch
          /\ err[1].args[2] = Recognised
          /\ out = <<>>
          /\ steps = <<>>
          /\ result = "none"
          /\ DOMAIN heap = {"value"}
    /\ stretch \in Recognised => (pc # "raised" /\ err = <<>>)

C2_Witness == pc = "raised" /\ stretch = "bogus" /\ Len(err) = 1

\* the finished call had the bounds of the call before it, exchanged
SwappedCall ==
    /\ pc = "done"
    /\ Len(prev) = 1
    /\ vmin # vmax
    /\ prev[1].vmin = vmax
    /\ prev[1].vmax = vmin
    /\ Len(prev[1].out) = 1

\* C3: with the bounds exchanged (and different) each output element is
\* 255 minus the element of the call with the bounds as they were, up to 1.
C3_InvertedBoundsComplement ==
    SwappedCall =>
        /\ Len(out[1]) = Len(prev[1].out[1])
        /\ \A i \in 1..Len(out[1]) :
              Abs(out[1][i] - (255 - prev[1].out[1][i])) <= 1

C3_Witness ==
    /\ SwappedCall
    /\ \E i \in 1..Len(out[1]) : out[1][i] + prev[1].out[1][i] = 254
    /\ \E i \in 1..Len(out[1]) : out[1][i] + prev[1].out[1][i] = 255

\* the call normalize([0, 0.5, 1], 0, 1) with the defaults has returned
LinearDefaultsDone ==
    /\ pc = "done"
    /\ input = <<Zero, <<1, 2>>, One>>
    /\ vmin = Zero
    /\ vmax = One
    /\ bias = <<1, 2>>
    /\ contrast = One
    /\ stretch = "linear"

\* C4 as stated: the call returns [127 or 128, 191 or 192, 255].
C4_Original ==
    LinearDefaultsDone =>
        /\ out[1][1] \in {127, 128}
        /\ out[1][2] \in {191, 192}
        /\ out[1][3] = 255

\* C4 as amended: the call returns [0, 127, 255], the truncation of
\* 255 * clip((x - 0.5) * 1 + 0.5, 0, 1).
C4_LinearDefaults == LinearDefaultsDone => out[1] = <<0, 127, 255>>

C4_Witness == LinearDefaultsDone

\* C5: for lo < hi, norm returns clip((x - lo) / (hi - lo), 0, 1): a value
\* in [0, 1], 0 for x <= lo and 1 for x >= hi.
C5_NormClips ==
    (pc = "warp" /\ Lt(lo, hi)) =>
        /\ Len(heap[result]) = Len(heap["value"])
        /\ \A i \in 1..Len(heap[result]) :
              LET x == heap["value"][i]
                  r == heap[result][i]
                  u == UnitOf(x, lo, hi)
              IN  /\ InUnit(r)
                  /\ Le(x, lo) => r = Zero
                  /\ Le(hi, x) => r = One
                  /\ r[1] * u[2] = u[1] * r[2]

C5_Witness ==
    /\ pc = "warp"
    /\ Lt(lo, hi)
    /\ \E i, j, k \in 1..Len(heap[result]) :
          /\ heap[result][i] = Zero
          /\ heap[result][j] = One
          /\ Lt(Zero, heap[result][k]) /\ Lt(heap[result][k], One)

\* C6: cscale turns each finite element x into clip((x - bias) * contrast
\* + 0.5, 0, 1), a value in [0, 1]; with bias 0.5 and contrast 1 an element
\* in [0, 1] is returned unchanged.
C6_CScale ==
    [][(pc = "cscale" /\ pc' = "stretched") =>
          \A i \in 1..Len(heap[result]) :
              LET x == heap[result][i]
                  y == heap'[result][i]
                  v == AdjustOf(x, bias, contrast)
              IN  IsFinite(x) =>
                      /\ InUnit(y)
                      /\ y = Rat(v[1], v[2])
                      /\ (bias = <<1, 2>> /\ contrast = One /\ InUnit(x)) => y = x
      ]_vars

C6_Witness ==
    /\ pc = "stretched"
    /\ bias = Zero
    /\ contrast = <<2, 1>>
    /\ \E i, j \in 1..Len(heap[result]) :
          /\ heap[result][i] = One
          /\ Lt(Zero, heap[result][j]) /\ Lt(heap[result][j], One)

\* C7 as stated: whenever a stretch function runs, the bounds it was given
\* satisfy lo < hi, so norm never divides by a zero range.
C7_BoundsStrictlyOrdered ==
    pc \in {"norm", "warp", "cscale", "stretched"} => Lt(lo, hi)

\* C8 as stated: with vmin = vmax and a recognised stretch the call does not
\* raise, norm's clip leaves every element in [0, 1] and the final clip
\* leaves every element in [0, 255], so only finite values are converted.
C8_ZeroRangeClamped ==
    (stretch \in Recognised /\ vmin = vmax) =>
        /\ pc # "raised"
        /\ pc = "warp" => \A i \in 1..Len(heap[result]) : InUnit(heap[result][i])
        /\ pc = "clipped" => \A i \in 1..Len(heap[result]) : InByte(heap[result][i])

\* the steps of a call, in order, for the bounds it was given
StepsFor(lower, upper) ==
    <<"norm", "warp", "cscale">>
        \o (IF Le(upper, lower) THEN <<"invert">> ELSE <<>>)
        \o <<"scale", "cast">>

\* floor(255 * r') for the linear stretch, by integer arithmetic
LinearByte(x, lower, upper, b, c) ==
    LET t == UnitOf(x, Min(lower, upper), Max(lower, upper))
        r == AdjustOf(t, b, c)
        n == IF Lt(upper, lower) THEN r[2] - r[1] ELSE r[1]
    IN  (255 * n) \div r[2]

\* C9: the steps run in the order norm, warp, cscale, inversion (exactly
\* when vmax <= vmin), scaling with the final clip, conversion; and for the
\* linear stretch with vmin # vmax the output is floor(255 * r').
C9_FixedOrderLinear ==
    /\ Len(steps) <= Len(StepsFor(vmin, vmax))
    /\ steps = SubSeq(StepsFor(vmin, vmax), 1, Len(steps))
    /\ pc = "done" =>
          /\ steps = StepsFor(vmin, vmax)
          /\ (stretch = "linear" /\ vmin # vmax) =>
                out[1] = [i \in 1..Len(input) |->
                             LinearByte(input[i], vmin, vmax, bias, contrast)]

C9_Witness ==
    /\ pc = "done"
    /\ stretch = "linear"
    /\ Lt(vmax, vmin)
    /\ \E i \in 1..Len(out[1]) : out[1][i] \notin {0, 255}

====
